---- MODULE Spec2Model ----
(***************************************************************************)
(* A model of nsetools' Nse client (src/nse.py): the self-renewing HTTP    *)
(* session behind Nse.fetch, the __CODECACHE__ reference-data cache of     *)
(* get_stock_codes / get_fno_lot_sizes, and the index-quote lookup.        *)
(*                                                                         *)
(* Strings whose characters matter (codes, CSV fields) are sequences of    *)
(* one-character strings, so that upper(), split(), strip(), casefold()    *)
(* and int() are computed rather than assumed.                             *)
(***************************************************************************)
EXTENDS Integers, Sequences, FiniteSets, TLC

VARIABLES
    constructed,               \* an Nse object exists (__init__ returned)
    session_refresh_interval,  \* self.session_refresh_interval
    now,                       \* the wall clock read by dt.now(), in seconds
    ticks,                     \* how often the clock has advanced
    _session,                  \* self._session: identity of the requests.Session, 0 = unset
    _session_init_time,        \* self._session_init_time
    nSessions,                 \* how many requests.Session objects have been created
    warmup,                    \* how the warm-up GET of the session in _session ended
    __CODECACHE__,             \* self.__CODECACHE__: None, or Some(dict)
    cacheSource,               \* which operation built the stored dict
    stockRuns,                 \* the fetches of the get_stock_codes(cached=True) calls
    call,                      \* what the last public operation did and returned
    running,                   \* the calls in progress, thread by thread: their locals
    peer                       \* a second Nse object of the process: its attributes

vars == <<constructed, session_refresh_interval, now, ticks, _session,
          _session_init_time, nSessions, warmup, __CODECACHE__, cacheSource, stockRuns, call,
          running, peer>>

sessionVars == <<constructed, session_refresh_interval, _session,
                 _session_init_time, nSessions, warmup>>
clockVars == <<now, ticks>>
cacheVars == <<__CODECACHE__, cacheSource>>

(***************************************************************************)
(* Bounds of the model and constants of the program.                       *)
(***************************************************************************)
MaxTicks == 2
MaxSessions == 2
MaxLines == 2

DaySeconds == 86400
DefaultRefreshInterval == 120
ShortRefreshInterval == 60
TickSeconds == 60

Intervals == {ShortRefreshInterval, DefaultRefreshInterval}
TickSteps == {TickSeconds, DaySeconds - TickSeconds, DaySeconds}

(***************************************************************************)
(* Python's None / a value, for self.__CODECACHE__.                        *)
(***************************************************************************)
None == <<>>
Some(v) == <<v>>
IsNone(o) == Len(o) = 0
TheValue(o) == o[1]

(***************************************************************************)
(* Strings as sequences of characters.                                     *)
(***************************************************************************)
LowerChars == <<"a", "b", "l", "m", "n", "o", "s", "y">>
UpperChars == <<"A", "B", "L", "M", "N", "O", "S", "Y">>
Whitespace == {" ", "\t"}

IndexIn(c, chars) == CHOOSE i \in 1..Len(chars) : chars[i] = c

\* str.upper(), one character
UpperChar(c) ==
    IF \E i \in 1..Len(LowerChars) : LowerChars[i] = c
    THEN UpperChars[IndexIn(c, LowerChars)]
    ELSE c

\* str.casefold(), one character
CasefoldChar(c) ==
    IF \E i \in 1..Len(UpperChars) : UpperChars[i] = c
    THEN LowerChars[IndexIn(c, UpperChars)]
    ELSE c

Upper(s) == [i \in 1..Len(s) |-> UpperChar(s[i])]
Casefold(s) == [i \in 1..Len(s) |-> CasefoldChar(s[i])]

\* str.split(): the maximal runs of non-whitespace characters, in order
RECURSIVE SplitWs(_, _, _)
SplitWs(s, i, word) ==
    IF i > Len(s)
    THEN IF word = <<>> THEN <<>> ELSE <<word>>
    ELSE IF s[i] \in Whitespace
         THEN IF word = <<>>
              THEN SplitWs(s, i + 1, <<>>)
              ELSE <<word>> \o SplitWs(s, i + 1, <<>>)
         ELSE SplitWs(s, i + 1, Append(word, s[i]))

\* ' '.join(words)
RECURSIVE JoinSp(_)
JoinSp(words) ==
    IF words = <<>> THEN <<>>
    ELSE IF Len(words) = 1 THEN words[1]
    ELSE words[1] \o <<" ">> \o JoinSp(Tail(words))

\* str.strip()
RECURSIVE LStrip(_)
LStrip(s) == IF s # <<>> /\ Head(s) \in Whitespace THEN LStrip(Tail(s)) ELSE s
RECURSIVE RStrip(_)
RStrip(s) ==
    IF s # <<>> /\ s[Len(s)] \in Whitespace
    THEN RStrip(SubSeq(s, 1, Len(s) - 1))
    ELSE s
Strip(s) == RStrip(LStrip(s))

\* s.find(sub) != -1
Contains(s, sub) ==
    \E i \in 1..(Len(s) - Len(sub) + 1) : SubSeq(s, i, i + Len(sub) - 1) = sub

(***************************************************************************)
(* The record of the last public operation: which requests it issued, on   *)
(* what, and how it ended.  It is an observation of the run; the program   *)
(* keeps no such record.                                                   *)
(*   fetch.entered  Nse.fetch ran in the operation                         *)
(*   fetch.late     at its entry now - _session_init_time was at least     *)
(*                  session_refresh_interval                               *)
(*   fetch.created  create_session calls made by the operation             *)
(*   fetch.warm     how the warm-up GET ended ("none": no warm-up GET)     *)
(*   fetch.getOn    the session the data GET was issued on (0: no GET)     *)
(*   fetch.gets     data GETs issued by Nse.fetch                          *)
(*   fetch.got      how the data GET ended ("none": no data GET)           *)
(*   opened         requests issued through self.opener.open               *)
(***************************************************************************)
NoFetch ==
    [entered |-> FALSE, late |-> FALSE, created |-> 0, warm |-> "none",
     getOn |-> 0, gets |-> 0, got |-> "none", prevGetOn |-> 0]

\* the session that the data GET of the latest Nse.fetch was issued on (0: none yet,
\* or that fetch ended before its GET)
LastGetOn == IF call.fetch.entered THEN call.fetch.getOn ELSE call.fetch.prevGetOn

Call(op, outcome, reply, f, opened) ==
    [op |-> op, outcome |-> outcome, reply |-> reply, fetch |-> f, opened |-> opened]

\* the threads that call into the one Nse object, and a thread that is in no call
Callers == {"t1", "t2"}
Idle == [op |-> "none", pc |-> "idle"]
NoneRunning == [c \in Callers |-> Idle]

\* no second Nse object has been built
NoLast == [op |-> "none", cached |-> FALSE, opened |-> 0, outcome |-> "none"]
NoPeer == [built |-> FALSE, own |-> None, fetched |-> FALSE, last |-> NoLast]

(***************************************************************************)
(* Session Manager: create_session and fetch.                              *)
(***************************************************************************)
WarmOutcomes == {"ok", "non2xx", "raise"}   \* requests.Session.get on NSE_HOME
GetOutcomes == {"ok", "raise"}              \* requests.Session.get on a data url

\* timedelta.seconds: the seconds field of a normalised timedelta (0 <= seconds < 86400,
\* whole days are carried in timedelta.days)
TimedeltaSeconds(d) == d % DaySeconds

\* the test of fetch with the comparison turned round
FreshInverted(time_diff, interval) == TimedeltaSeconds(time_diff) >= interval

\* the test of fetch: time_diff.seconds < self.session_refresh_interval
Fresh(time_diff, interval) == TimedeltaSeconds(time_diff) < interval

\* create_session, with the warm-up GET ending `warm`.  A requests GET raises on a
\* network error only; a non-2xx response is returned like any other.  The new
\* Session is stored before the GET, _session_init_time is set after it.
create_session(warm) ==
    [session |-> nSessions + 1,
     init |-> IF warm = "raise" THEN _session_init_time ELSE now,
     raised |-> warm = "raise"]

\* fetch(url) trying once more, on a new session, when the data GET raised
fetchRetrying(warm, get) ==
    LET time_diff == now - _session_init_time
        late == time_diff >= session_refresh_interval
        stale == ~Fresh(time_diff, session_refresh_interval)
        cs == create_session(warm)
    IN
    IF stale /\ cs.raised
    THEN [session |-> cs.session, init |-> cs.init, warmup |-> warm,
          nSessions |-> nSessions + 1, raised |-> TRUE,
          log |-> [entered |-> TRUE, late |-> late, created |-> 1, warm |-> warm,
                   getOn |-> 0, gets |-> 0, got |-> "none", prevGetOn |-> LastGetOn]]
    ELSE IF get = "raise"
    THEN [session |-> nSessions + (IF stale THEN 2 ELSE 1), init |-> now, warmup |-> "ok",
          nSessions |-> nSessions + (IF stale THEN 2 ELSE 1), raised |-> TRUE,
          log |-> [entered |-> TRUE, late |-> late, created |-> IF stale THEN 2 ELSE 1,
                   warm |-> "ok", getOn |-> nSessions + (IF stale THEN 2 ELSE 1),
                   gets |-> 2, got |-> get, prevGetOn |-> LastGetOn]]
    ELSE [session |-> IF stale THEN cs.session ELSE _session,
          init |-> IF stale THEN cs.init ELSE _session_init_time,
          warmup |-> IF stale THEN warm ELSE warmup,
          nSessions |-> IF stale THEN nSessions + 1 ELSE nSessions, raised |-> FALSE,
          log |-> [entered |-> TRUE, late |-> late, created |-> IF stale THEN 1 ELSE 0,
                   warm |-> IF stale THEN warm ELSE "none",
                   getOn |-> IF stale THEN cs.session ELSE _session,
                   gets |-> 1, got |-> get, prevGetOn |-> LastGetOn]]

\* fetch(url), with the warm-up GET (if any) ending `warm` and the data GET `get`
fetch(warm, get) ==
    LET time_diff == now - _session_init_time
        late == time_diff >= session_refresh_interval
    IN
    IF Fresh(time_diff, session_refresh_interval)
    THEN [session |-> _session, init |-> _session_init_time, warmup |-> warmup,
          nSessions |-> nSessions, raised |-> get = "raise",
          log |-> [entered |-> TRUE, late |-> late, created |-> 0, warm |-> "none",
                   getOn |-> _session, gets |-> 1, got |-> get,
                   prevGetOn |-> LastGetOn]]
    ELSE LET cs == create_session(warm) IN
         [session |-> cs.session, init |-> cs.init, warmup |-> warm,
          nSessions |-> nSessions + 1, raised |-> cs.raised \/ get = "raise",
          log |-> [entered |-> TRUE, late |-> late, created |-> 1, warm |-> warm,
                   getOn |-> IF cs.raised THEN 0 ELSE cs.session,
                   gets |-> IF cs.raised THEN 0 ELSE 1,
                   got |-> IF cs.raised THEN "none" ELSE get,
                   prevGetOn |-> LastGetOn]]

\* whether fetch would call create_session now
NeedsSession == ~Fresh(now - _session_init_time, session_refresh_interval)

\* the part of every fetching operation that is fetch's: its guard (an object exists;
\* the model creates at most MaxSessions sessions) and the session it leaves
Fetching(f) ==
    /\ constructed
    /\ f.nSessions <= MaxSessions
    /\ _session' = f.session
    /\ _session_init_time' = f.init
    /\ nSessions' = f.nSessions
    /\ warmup' = f.warmup
    /\ UNCHANGED <<constructed, session_refresh_interval>>

\* how a fetch that raised ends the operation
FetchError(f) == IF f.raised THEN "TransportError" ELSE "ok"

\* Nse(session_refresh_interval): __init__ calls create_session; if that raises, no
\* object comes to exist
NseInit(interval, warm) ==
    /\ ~constructed
    /\ nSessions < MaxSessions
    /\ LET cs == create_session(warm) IN
       /\ constructed' = ~cs.raised
       /\ session_refresh_interval' = interval
       /\ _session' = IF cs.raised THEN 0 ELSE cs.session
       /\ _session_init_time' = IF cs.raised THEN 0 ELSE cs.init
       /\ nSessions' = nSessions + 1
       /\ warmup' = IF cs.raised THEN "none" ELSE warm
       /\ call' = Call("__init__", IF cs.raised THEN "TransportError" ELSE "ok", <<>>,
                       [NoFetch EXCEPT !.created = 1, !.warm = warm,
                                       !.prevGetOn = LastGetOn], 0)
    /\ UNCHANGED <<clockVars, cacheVars, stockRuns, running, peer>>

\* time passes
Tick(d) ==
    /\ ticks < MaxTicks
    /\ now' = now + d
    /\ ticks' = ticks + 1
    /\ UNCHANGED <<sessionVars, cacheVars, stockRuns, call, running, peer>>

(***************************************************************************)
(* Python values in payloads and dicts: a value is tagged with its type.   *)
(* A float is <<"float", n, k>>, the number n / 10^k with k minimal.       *)
(***************************************************************************)
PyStr(s) == <<"str", s>>
PyInt(n) == <<"int", n>>
PyDict(d) == <<"dict", d>>
PyList(l) == <<"list", l>>
IsStr(v) == v[1] = "str"

Digits == <<"0", "1", "2", "3", "4", "5", "6", "7", "8", "9">>
IsDigit(c) == \E i \in 1..Len(Digits) : Digits[i] = c
DigitVal(c) == IndexIn(c, Digits) - 1
AllDigits(s) == s # <<>> /\ \A i \in 1..Len(s) : IsDigit(s[i])

RECURSIVE DigitsVal(_)
DigitsVal(s) ==
    IF s = <<>> THEN 0
    ELSE 10 * DigitsVal(SubSeq(s, 1, Len(s) - 1)) + DigitVal(s[Len(s)])

Signed(s) == s # <<>> /\ Head(s) \in {"-", "+"}
Unsigned(s) == IF Signed(s) THEN Tail(s) ELSE s
SignOf(s) == IF s # <<>> /\ Head(s) = "-" THEN -1 ELSE 1

\* int(s) succeeds: optional surrounding whitespace, optional sign, decimal digits
IntParses(s) == AllDigits(Unsigned(Strip(s)))
IntOf(s) == SignOf(Strip(s)) * DigitsVal(Unsigned(Strip(s)))

\* float(s) succeeds: optional whitespace and sign, digits with at most one point
\* and at least one digit
PointAt(s) == IF \E i \in 1..Len(s) : s[i] = "." THEN CHOOSE i \in 1..Len(s) : s[i] = "." ELSE 0
IntPart(s) == IF PointAt(s) = 0 THEN s ELSE SubSeq(s, 1, PointAt(s) - 1)
FracPart(s) == IF PointAt(s) = 0 THEN <<>> ELSE SubSeq(s, PointAt(s) + 1, Len(s))
FloatParses(s) ==
    LET u == Unsigned(Strip(s)) IN
    /\ IntPart(u) \o FracPart(u) # <<>>
    /\ \A i \in 1..Len(IntPart(u)) : IsDigit(IntPart(u)[i])
    /\ \A i \in 1..Len(FracPart(u)) : IsDigit(FracPart(u)[i])

RECURSIVE DropZeros(_)
DropZeros(s) ==
    IF s # <<>> /\ s[Len(s)] = "0" THEN DropZeros(SubSeq(s, 1, Len(s) - 1)) ELSE s

FloatOf(s) ==
    LET u == Unsigned(Strip(s))
        frac == DropZeros(FracPart(u))
    IN  <<"float", SignOf(Strip(s)) * DigitsVal(IntPart(u) \o frac), Len(frac)>>

\* the conversion trying float() before int()
CastValueFloatFirst(v) ==
    IF IsStr(v)
    THEN IF FloatParses(v[2]) THEN FloatOf(v[2])
         ELSE IF IntParses(v[2]) THEN PyInt(IntOf(v[2]))
         ELSE v
    ELSE v

\* the conversion taking the commas out of a string that neither int() nor float()
\* accepts
CastValueDroppingCommas(v) ==
    IF IsStr(v)
    THEN IF IntParses(v[2]) THEN PyInt(IntOf(v[2]))
         ELSE IF FloatParses(v[2]) THEN FloatOf(v[2])
         ELSE PyStr(SelectSeq(v[2], LAMBDA c : c # ","))
    ELSE v

\* cast_intfloat_string_values_to_intfloat, one value
CastValue(v) ==
    IF IsStr(v)
    THEN IF IntParses(v[2]) THEN PyInt(IntOf(v[2]))
         ELSE IF FloatParses(v[2]) THEN FloatOf(v[2])
         ELSE v
    ELSE v

\* cast_intfloat_string_values_to_intfloat(d): a copy of d with every top-level str
\* value that int() or float() accepts replaced by the number
cast_intfloat_string_values_to_intfloat(d) == [k \in DOMAIN d |-> CastValue(d[k])]

\* a call cast_intfloat_string_values_to_intfloat(d): the dict the caller passed, as
\* the call leaves it (the loop works on d.copy()), and the dict returned
CastCall(d) == [d |-> d, returned |-> cast_intfloat_string_values_to_intfloat(d)]

(***************************************************************************)
(* Index quotes.                                                           *)
(***************************************************************************)
\* code.upper() alone, whitespace kept
NormalizeCodeUpperOnly(code) == Upper(code)

\* code.upper(); ' '.join(code.split())
NormalizeCode(code) == JoinSp(SplitWs(Upper(code), 1, <<>>))

\* the codes callers pass
IndexCodes ==
    { <<>>, <<"n">>, <<"\t", "N">>, <<"n", " ", "b">>, <<"N", " ", "B", " ">>,
      <<"n", "\t", " ", "b">>, <<"n", "b">>, <<"b">> }

\* the records the provider serves under 'data' of ALL_INDICES_URL
IndexRecord(sym, last) == [indexSymbol |-> PyStr(sym), last |-> last]
IndexLists ==
    { <<>>,
      <<IndexRecord(<<"N", " ", "B">>, PyStr(<<"1", ".", "5">>)),
        IndexRecord(<<"N">>, PyInt(7))>>,
      <<IndexRecord(<<"N", " ", "B">>, PyStr(<<"-">>)),
        IndexRecord(<<"N", " ", "B">>, PyStr(<<"3">>))>>,
      <<IndexRecord(<<"n">>, PyStr(<<"4">>)),
        IndexRecord(<<"N", " ", " ", "B">>, PyStr(<<"5">>))>> }

\* a decoded JSON body of ALL_INDICES_URL, or one that json()['data'] rejects
BadBody == [ok |-> FALSE, data |-> <<>>]
IndexBodies == {BadBody} \cup {[ok |-> TRUE, data |-> l] : l \in IndexLists}

\* index_list of get_index_quote
IndexList(all_index_quote) ==
    [i \in 1..Len(all_index_quote) |-> all_index_quote[i].indexSymbol]

\* the lookup of get_index_quote matching the indexSymbol values whatever their case
IndexLookupAnyCase(code, all_index_quote) ==
    LET key == NormalizeCode(code)
        index_list == IndexList(all_index_quote)
        hits == {i \in 1..Len(index_list) : Upper(index_list[i][2]) = key}
    IN  IF hits # {}
        THEN [key |-> key, outcome |-> "ok",
              record |-> Some(cast_intfloat_string_values_to_intfloat(
                           all_index_quote[CHOOSE i \in hits : \A j \in hits : i <= j]))]
        ELSE [key |-> key, outcome |-> "WrongIndexCode", record |-> None]

\* the lookup of get_index_quote on a fetched list: the key it looks up, whether it
\* is in index_list, and the first record with that indexSymbol, cast
IndexLookup(code, all_index_quote) ==
    LET key == NormalizeCode(code)
        index_list == IndexList(all_index_quote)
        hits == {i \in 1..Len(index_list) : index_list[i] = PyStr(key)}
    IN  IF hits # {}
        THEN [key |-> key, outcome |-> "ok",
              record |-> Some(cast_intfloat_string_values_to_intfloat(
                           all_index_quote[CHOOSE i \in hits : \A j \in hits : i <= j]))]
        ELSE [key |-> key, outcome |-> "WrongIndexCode", record |-> None]

\* get_all_index_quote()
get_all_index_quote(warm, get, body) ==
    LET f == fetch(warm, get) IN
    /\ Fetching(f)
    /\ call' = IF f.raised THEN Call("get_all_index_quote", FetchError(f), <<>>, f.log, 0)
               ELSE IF ~body.ok THEN Call("get_all_index_quote", "ParseError", <<>>, f.log, 0)
               ELSE Call("get_all_index_quote", "ok", body.data, f.log, 0)
    /\ UNCHANGED <<clockVars, cacheVars, stockRuns, running, peer>>

\* get_index_list()
get_index_list(warm, get, body) ==
    LET f == fetch(warm, get) IN
    /\ Fetching(f)
    /\ call' = IF f.raised THEN Call("get_index_list", FetchError(f), <<>>, f.log, 0)
               ELSE IF ~body.ok THEN Call("get_index_list", "ParseError", <<>>, f.log, 0)
               ELSE Call("get_index_list", "ok", IndexList(body.data), f.log, 0)
    /\ UNCHANGED <<clockVars, cacheVars, stockRuns, running, peer>>

\* what get_index_quote returns or raises with, beside what it was asked: whether
\* the list was fetched and decoded, the key looked up, the record returned
IndexReply(code, fetched, list, found) ==
    [code |-> code, fetched |-> fetched, list |-> list, key |-> found.key,
     record |-> found.record]
NotLooked == [key |-> <<>>, outcome |-> "none", record |-> None]

\* get_index_quote(code)
get_index_quote(code, warm, get, body) ==
    LET f == fetch(warm, get)
        found == IndexLookup(code, body.data)
    IN
    /\ Fetching(f)
    /\ call' = IF f.raised
               THEN Call("get_index_quote", FetchError(f),
                         IndexReply(code, FALSE, <<>>, NotLooked), f.log, 0)
               ELSE IF ~body.ok
               THEN Call("get_index_quote", "ParseError",
                         IndexReply(code, FALSE, <<>>, NotLooked), f.log, 0)
               ELSE Call("get_index_quote", found.outcome,
                         IndexReply(code, TRUE, body.data, found), f.log, 0)
    /\ UNCHANGED <<clockVars, cacheVars, stockRuns, running, peer>>

(***************************************************************************)
(* Quotes, gainers, losers, advances/declines: fetch, decode, cast.        *)
(***************************************************************************)
QuoteCodes == { <<"a">>, <<"A">>, <<"a", "b">> }

PriceInfo == [lastPrice |-> PyStr(<<"1", "2">>), change |-> PyStr(<<"-">>)]
QuoteBodies ==
    { BadBody,
      [ok |-> TRUE, data |-> [info |-> PyStr(<<"7">>), priceInfo |-> PyDict(PriceInfo)]],
      [ok |-> TRUE, data |-> [info |-> PyStr(<<"7">>)]] }

\* what get_quote makes of a decoded body
QuoteResult(body, all_data) ==
    IF ~body.ok THEN [outcome |-> "ParseError", value |-> <<>>]
    ELSE IF all_data
    THEN [outcome |-> "ok", value |-> cast_intfloat_string_values_to_intfloat(body.data)]
    ELSE IF "priceInfo" \in DOMAIN body.data
    THEN [outcome |-> "ok",
          value |-> cast_intfloat_string_values_to_intfloat(body.data.priceInfo[2])]
    ELSE [outcome |-> "KeyError", value |-> <<>>]

\* get_quote(code, all_data); the url is QUOTE_API_URL % code.upper()
get_quote(code, all_data, warm, get, body) ==
    LET f == fetch(warm, get)
        r == QuoteResult(body, all_data)
    IN
    /\ Fetching(f)
    /\ call' = IF f.raised THEN Call("get_quote", FetchError(f), <<>>, f.log, 0)
               ELSE Call("get_quote", r.outcome, [url |-> Upper(code), value |-> r.value],
                         f.log, 0)
    /\ UNCHANGED <<clockVars, cacheVars, stockRuns, running, peer>>

MoverRecord == [symbol |-> PyStr(<<"A">>), ltp |-> PyStr(<<"1", ".", "5">>)]
MoverBodies ==
    { BadBody,
      [ok |-> TRUE,
       data |-> [NIFTY |-> PyDict([data |-> PyList(<<MoverRecord>>)]),
                 count |-> PyStr(<<"1">>)]],
      [ok |-> TRUE, data |-> [NIFTY |-> PyDict([count |-> PyStr(<<"0">>)])]] }
MoverIndexes == {"NIFTY", "BANKNIFTY"}
Indexes == {None} \cup {Some(i) : i \in MoverIndexes}

\* what get_top_gainers / get_top_losers make of a decoded body; index is None or
\* Some(selector)
MoverResult(body, index) ==
    IF ~body.ok THEN [outcome |-> "ParseError", value |-> <<>>]
    ELSE IF IsNone(index)
    THEN [outcome |-> "ok", value |-> cast_intfloat_string_values_to_intfloat(body.data)]
    ELSE IF /\ TheValue(index) \in DOMAIN body.data
            /\ body.data[TheValue(index)][1] = "dict"
            /\ "data" \in DOMAIN body.data[TheValue(index)][2]
    THEN [outcome |-> "ok", value |-> body.data[TheValue(index)][2].data]
    ELSE [outcome |-> "KeyError", value |-> <<>>]

\* get_top_gainers(index)
get_top_gainers(index, warm, get, body) ==
    LET f == fetch(warm, get)
        r == MoverResult(body, index)
    IN
    /\ Fetching(f)
    /\ call' = IF f.raised THEN Call("get_top_gainers", FetchError(f), <<>>, f.log, 0)
               ELSE Call("get_top_gainers", r.outcome, [index |-> index, value |-> r.value],
                         f.log, 0)
    /\ UNCHANGED <<clockVars, cacheVars, stockRuns, running, peer>>

\* get_top_losers(index)
get_top_losers(index, warm, get, body) ==
    LET f == fetch(warm, get)
        r == MoverResult(body, index)
    IN
    /\ Fetching(f)
    /\ call' = IF f.raised THEN Call("get_top_losers", FetchError(f), <<>>, f.log, 0)
               ELSE Call("get_top_losers", r.outcome, [index |-> index, value |-> r.value],
                         f.log, 0)
    /\ UNCHANGED <<clockVars, cacheVars, stockRuns, running, peer>>

AdvanceBodies ==
    { BadBody,
      [ok |-> TRUE,
       data |-> [advance |-> PyDict([advances |-> PyStr(<<"3", "0">>),
                                     declines |-> PyInt(20)])]],
      [ok |-> TRUE, data |-> [name |-> PyStr(<<"N">>)]] }

\* what get_advances_declines makes of a decoded body
AdvanceResult(body) ==
    IF ~body.ok THEN [outcome |-> "ParseError", value |-> <<>>]
    ELSE IF "advance" \in DOMAIN body.data
    THEN [outcome |-> "ok",
          value |-> cast_intfloat_string_values_to_intfloat(body.data.advance[2])]
    ELSE [outcome |-> "KeyError", value |-> <<>>]

\* get_advances_declines(code); the url is EQUITY_STOCK_INDICES_URL % the code,
\* upper-cased and whitespace-collapsed
get_advances_declines(code, warm, get, body) ==
    LET f == fetch(warm, get)
        r == AdvanceResult(body)
    IN
    /\ Fetching(f)
    /\ call' = IF f.raised THEN Call("get_advances_declines", FetchError(f), <<>>, f.log, 0)
               ELSE Call("get_advances_declines", r.outcome,
                         [url |-> NormalizeCode(code), value |-> r.value], f.log, 0)
    /\ UNCHANGED <<clockVars, cacheVars, stockRuns, running, peer>>

(***************************************************************************)
(* Reference-Data Cache: get_stock_codes, get_fno_lot_sizes, is_valid_code *)
(* and the other operations that go through self.opener.                   *)
(*                                                                         *)
(* A CSV line is the sequence of its comma-separated fields, so            *)
(* line.split(',') is the line itself, a line holds a comma iff it has two *)
(* fields or more, and the empty line is <<"">>.                           *)
(***************************************************************************)
EmptyLine == << <<>> >>
HasComma(line) == Len(line) >= 2

\* d[k] = v
Put(d, k, v) == [x \in DOMAIN d \cup {k} |-> IF x = k THEN v ELSE d[x]]

\* what self.opener.open(req) does: raises, returns None, or returns a response
\* whose body is these lines
Unasked == [kind |-> "unasked", lines |-> <<>>]
Raises == [kind |-> "raise", lines |-> <<>>]
NoResponse == [kind |-> "none", lines |-> <<>>]
Body(lines) == [kind |-> "body", lines |-> lines]

RECURSIVE SeqsUpTo(_, _)
SeqsUpTo(S, n) ==
    IF n = 0 THEN {<<>>}
    ELSE LET shorter == SeqsUpTo(S, n - 1)
         IN  shorter \cup {Append(s, x) : s \in shorter, x \in S}

StockLines ==
    { << <<"A">>, <<"x">> >>,
      << <<"A", "B">>, <<"y">>, <<"z">> >>,
      << <<>>, <<"x">> >> }
StockResponses ==
    {Raises, NoResponse, Body(<<EmptyLine>>), Body(<< << <<"A">> >> >>)}
        \cup {Body(l) : l \in SeqsUpTo(StockLines, MaxLines)}

\* the loop of get_stock_codes over the lines of the body
RECURSIVE ParseStockCodes(_, _)
ParseStockCodes(lines, res_dict) ==
    IF lines = <<>> THEN res_dict
    ELSE LET line == Head(lines) IN
         IF line # EmptyLine /\ HasComma(line)
         THEN ParseStockCodes(Tail(lines), Put(res_dict, line[1], PyStr(line[2])))
         ELSE ParseStockCodes(Tail(lines), res_dict)

Symbol == <<"s", "y", "m", "b", "o", "l">>
FnoLines ==
    { << <<"U">>, <<"S", "y", "m", "b", "o", "l">>, <<"L">> >>,
      << <<"x">>, <<"A", " ">>, <<" ", "2", "5">> >>,
      << <<"x">>, <<"B">>, <<"5", "0">>, <<"7">> >>,
      << <<"x">>, <<"A">>, <<"l", "o", "t">> >> }
FnoResponses ==
    {Raises, NoResponse, Body(<<EmptyLine>>), Body(<< << <<"x">>, <<"A">> >> >>)}
        \cup {Body(l) : l \in SeqsUpTo(FnoLines, MaxLines)}

\* line.casefold().find('symbol') == -1
NoSymbol(line) == \A i \in 1..Len(line) : ~Contains(Casefold(line[i]), Symbol)

\* the loop of get_fno_lot_sizes over the lines of the body: the dict built so far
\* and whether the unpacking or int() raised (ValueError)
RECURSIVE ParseLotSizes(_, _)
ParseLotSizes(lines, res_dict) ==
    IF lines = <<>> THEN [raised |-> FALSE, dict |-> res_dict]
    ELSE LET line == Head(lines) IN
         IF line # EmptyLine /\ HasComma(line) /\ NoSymbol(line)
         THEN IF Len(line) >= 3 /\ IntParses(Strip(line[3]))
              THEN ParseLotSizes(Tail(lines),
                                 Put(res_dict, Strip(line[2]), PyInt(IntOf(Strip(line[3])))))
              ELSE [raised |-> TRUE, dict |-> res_dict]
         ELSE ParseLotSizes(Tail(lines), res_dict)

\* a test that never trusts the cache
MustFetchAlways(cached) == TRUE

\* the test "cached is not True or self.__CODECACHE__ is None"
MustFetch(cached) == ~cached \/ IsNone(__CODECACHE__)

\* render_response(data, as_json): the data, or its JSON text
render_response(data, as_json) == [json |-> as_json, data |-> data]

\* get_stock_codes up to its return: the outcome, the cache it leaves, the requests
\* it issued
StockCodes(cached, resp) ==
    IF MustFetch(cached)
    THEN IF resp.kind = "raise"
         THEN [outcome |-> "TransportError", cache |-> __CODECACHE__, stored |-> FALSE, opened |-> 1]
         ELSE IF resp.kind = "none"
         THEN [outcome |-> "NoResponse", cache |-> __CODECACHE__, stored |-> FALSE, opened |-> 1]
         ELSE [outcome |-> "ok", cache |-> Some(ParseStockCodes(resp.lines, <<>>)),
               stored |-> TRUE, opened |-> 1]
    ELSE [outcome |-> "ok", cache |-> __CODECACHE__, stored |-> FALSE, opened |-> 0]

\* get_fno_lot_sizes storing res_dict as it stands when a line fails to convert
LotSizesStoringPartial(cached, resp) ==
    IF MustFetch(cached)
    THEN IF resp.kind = "raise"
         THEN [outcome |-> "TransportError", cache |-> __CODECACHE__, stored |-> FALSE, opened |-> 1]
         ELSE IF resp.kind = "none"
         THEN [outcome |-> "NoResponse", cache |-> __CODECACHE__, stored |-> FALSE, opened |-> 1]
         ELSE LET parsed == ParseLotSizes(resp.lines, <<>>) IN
              IF parsed.raised
              THEN [outcome |-> "ValueError", cache |-> Some(parsed.dict), stored |-> TRUE, opened |-> 1]
              ELSE [outcome |-> "ok", cache |-> Some(parsed.dict), stored |-> TRUE, opened |-> 1]
    ELSE [outcome |-> "ok", cache |-> __CODECACHE__, stored |-> FALSE, opened |-> 0]

\* get_fno_lot_sizes up to its return
LotSizes(cached, resp) ==
    IF MustFetch(cached)
    THEN IF resp.kind = "raise"
         THEN [outcome |-> "TransportError", cache |-> __CODECACHE__, stored |-> FALSE, opened |-> 1]
         ELSE IF resp.kind = "none"
         THEN [outcome |-> "NoResponse", cache |-> __CODECACHE__, stored |-> FALSE, opened |-> 1]
         ELSE LET parsed == ParseLotSizes(resp.lines, <<>>) IN
              IF parsed.raised
              THEN [outcome |-> "ValueError", cache |-> __CODECACHE__, stored |-> FALSE, opened |-> 1]
              ELSE [outcome |-> "ok", cache |-> Some(parsed.dict), stored |-> TRUE, opened |-> 1]
    ELSE [outcome |-> "ok", cache |-> __CODECACHE__, stored |-> FALSE, opened |-> 0]

\* stockRuns, kept over the get_stock_codes(cached=True) calls made since the last
\* get_stock_codes(cached=False) call:
\*   issued    the network fetches they issued (counted up to 2)
\*   returned  one of them has returned a mapping
\*   again     the network fetches issued by those made after one had returned a mapping
NoRuns == [issued |-> 0, returned |-> FALSE, again |-> 0]
Counted(n) == IF n < 2 THEN n + 1 ELSE 2
StockRuns(cached, r) ==
    IF ~cached THEN NoRuns
    ELSE [issued |-> IF r.opened = 1 THEN Counted(stockRuns.issued) ELSE stockRuns.issued,
          returned |-> stockRuns.returned \/ r.outcome = "ok",
          again |-> IF stockRuns.returned /\ r.opened = 1
                    THEN Counted(stockRuns.again) ELSE stockRuns.again]

\* get_stock_codes(cached, as_json)
get_stock_codes(cached, as_json, resp) ==
    LET r == StockCodes(cached, resp) IN
    /\ constructed
    /\ __CODECACHE__' = r.cache
    /\ cacheSource' = IF r.stored THEN "get_stock_codes" ELSE cacheSource
    /\ stockRuns' = StockRuns(cached, r)
    /\ call' = Call("get_stock_codes", r.outcome,
                    IF r.outcome = "ok"
                    THEN [cached |-> cached, answer |-> resp.kind,
                          value |-> Some(render_response(TheValue(r.cache), as_json))]
                    ELSE [cached |-> cached, answer |-> resp.kind, value |-> None],
                    [NoFetch EXCEPT !.prevGetOn = LastGetOn], r.opened)
    /\ UNCHANGED <<sessionVars, clockVars, running, peer>>

\* get_fno_lot_sizes(cached, as_json)
get_fno_lot_sizes(cached, as_json, resp) ==
    LET r == LotSizes(cached, resp) IN
    /\ constructed
    /\ __CODECACHE__' = r.cache
    /\ cacheSource' = IF r.stored THEN "get_fno_lot_sizes" ELSE cacheSource
    /\ call' = Call("get_fno_lot_sizes", r.outcome,
                    IF r.outcome = "ok"
                    THEN [cached |-> cached, answer |-> resp.kind,
                          value |-> Some(render_response(TheValue(r.cache), as_json))]
                    ELSE [cached |-> cached, answer |-> resp.kind, value |-> None],
                    [NoFetch EXCEPT !.prevGetOn = LastGetOn], r.opened)
    /\ UNCHANGED <<sessionVars, clockVars, stockRuns, running, peer>>

\* the codes callers ask about
ValidityCodes == { <<>>, <<"a">>, <<"A">>, <<"a", "B">>, <<"b">> }

\* what is_valid_code returns once get_stock_codes() has returned stock_codes
IsValid(code, stock_codes) == IF Upper(code) \in DOMAIN stock_codes THEN "True" ELSE "False"

\* is_valid_code(code): an empty code falls through the "if code:" and returns None
is_valid_code(code, resp) ==
    LET r == StockCodes(TRUE, resp) IN
    /\ constructed
    /\ IF code # <<>>
       THEN /\ __CODECACHE__' = r.cache
            /\ cacheSource' = IF r.stored THEN "get_stock_codes" ELSE cacheSource
            /\ stockRuns' = StockRuns(TRUE, r)
            /\ call' = Call("is_valid_code", r.outcome,
                            IF r.outcome = "ok"
                            THEN [code |-> code, value |-> IsValid(code, TheValue(r.cache))]
                            ELSE [code |-> code, value |-> "raised"],
                            [NoFetch EXCEPT !.prevGetOn = LastGetOn], r.opened)
       ELSE /\ UNCHANGED <<cacheVars, stockRuns>>
            /\ call' = Call("is_valid_code", "ok", [code |-> code, value |-> "None"],
                            [NoFetch EXCEPT !.prevGetOn = LastGetOn], 0)
    /\ UNCHANGED <<sessionVars, clockVars, running, peer>>

\* what the opener returns for TOP_FNO_GAINER_URL / TOP_FNO_LOSER_URL: raises, or a
\* body that json.load and ['data'] accept (with so many items) or reject
FnoMoverResponses ==
    {[kind |-> "raise", items |-> 0], [kind |-> "bad", items |-> 0]}
        \cup {[kind |-> "body", items |-> n] : n \in 0..MaxLines}

\* get_top_fno_gainers / get_top_fno_losers up to the return: clean_server_response
\* is a stub that returns None for every item
FnoMovers(resp) ==
    IF resp.kind = "raise" THEN [outcome |-> "TransportError", value |-> <<>>]
    ELSE IF resp.kind = "bad" THEN [outcome |-> "ParseError", value |-> <<>>]
    ELSE [outcome |-> "ok", value |-> [i \in 1..resp.items |-> "None"]]

\* get_top_fno_gainers(as_json)
get_top_fno_gainers(as_json, resp) ==
    LET r == FnoMovers(resp) IN
    /\ constructed
    /\ call' = Call("get_top_fno_gainers", r.outcome, render_response(r.value, as_json),
                    [NoFetch EXCEPT !.prevGetOn = LastGetOn], 1)
    /\ UNCHANGED <<sessionVars, clockVars, cacheVars, stockRuns, running, peer>>

\* get_top_fno_losers(as_json)
get_top_fno_losers(as_json, resp) ==
    LET r == FnoMovers(resp) IN
    /\ constructed
    /\ call' = Call("get_top_fno_losers", r.outcome, render_response(r.value, as_json),
                    [NoFetch EXCEPT !.prevGetOn = LastGetOn], 1)
    /\ UNCHANGED <<sessionVars, clockVars, cacheVars, stockRuns, running, peer>>

(***************************************************************************)
(* The state machine.                                                      *)
(***************************************************************************)
Init ==
    /\ constructed = FALSE
    /\ session_refresh_interval = DefaultRefreshInterval
    /\ now = 0
    /\ ticks = 0
    /\ _session = 0
    /\ _session_init_time = 0
    /\ nSessions = 0
    /\ warmup = "none"
    /\ __CODECACHE__ = None
    /\ cacheSource = "none"
    /\ stockRuns = NoRuns
    /\ call = Call("none", "ok", <<>>, NoFetch, 0)
    /\ running = NoneRunning
    /\ peer = NoPeer

\* the warm-up and data GET outcomes that a fetch made now can meet
Warms == IF NeedsSession THEN WarmOutcomes ELSE {"none"}
Gets(warm) == IF warm = "raise" THEN {"none"} ELSE GetOutcomes
Bodies(get, bodies) == IF get = "ok" THEN bodies ELSE {BadBody}

\* the operations that go through Nse.fetch, called with these arguments and
\* answered with these bodies
FetchCalls(quoteCodes, quoteBodies, indexes, moverBodies, indexCodes, advanceBodies, indexBodies) ==
    \E warm \in Warms : \E get \in Gets(warm) :
       \/ \E code \in quoteCodes, all_data \in BOOLEAN, body \in Bodies(get, quoteBodies) :
             get_quote(code, all_data, warm, get, body)
       \/ \E index \in indexes, body \in Bodies(get, moverBodies) :
             get_top_gainers(index, warm, get, body)
       \/ \E index \in indexes, body \in Bodies(get, moverBodies) :
             get_top_losers(index, warm, get, body)
       \/ \E code \in indexCodes, body \in Bodies(get, advanceBodies) :
             get_advances_declines(code, warm, get, body)
       \/ \E body \in Bodies(get, indexBodies) : get_all_index_quote(warm, get, body)
       \/ \E body \in Bodies(get, indexBodies) : get_index_list(warm, get, body)
       \/ \E code \in indexCodes, body \in Bodies(get, indexBodies) :
             get_index_quote(code, warm, get, body)

FetchNext ==
    FetchCalls(QuoteCodes, QuoteBodies, Indexes, MoverBodies, IndexCodes, AdvanceBodies,
               IndexBodies)

\* the answers of the opener that a call made now can meet
Answers(cached, responses) == IF MustFetch(cached) THEN responses ELSE {Unasked}

\* the operations that go through self.opener, called with these as_json flags
OpenerCallsOn(flags, stockResponses, fnoResponses, codes, moverResponses) ==
    \/ \E cached \in BOOLEAN, as_json \in flags :
          \E resp \in Answers(cached, stockResponses) : get_stock_codes(cached, as_json, resp)
    \/ \E cached \in BOOLEAN, as_json \in flags :
          \E resp \in Answers(cached, fnoResponses) : get_fno_lot_sizes(cached, as_json, resp)
    \/ \E code \in codes :
          \E resp \in IF code # <<>> THEN Answers(TRUE, stockResponses) ELSE {Unasked} :
             is_valid_code(code, resp)
    \/ \E as_json \in flags, resp \in moverResponses : get_top_fno_gainers(as_json, resp)
    \/ \E as_json \in flags, resp \in moverResponses : get_top_fno_losers(as_json, resp)

OpenerCalls(flags) ==
    OpenerCallsOn(flags, StockResponses, FnoResponses, ValidityCodes, FnoMoverResponses)

OpenerNext == OpenerCalls(BOOLEAN)

Construct == \E interval \in Intervals, warm \in WarmOutcomes : NseInit(interval, warm)
Clock == \E d \in TickSteps : Tick(d)

Next == Construct \/ Clock \/ FetchNext \/ OpenerNext
Spec == Init /\ [][Next]_vars

\* the session and the operations that use it, as time passes; one call and one
\* answer of each kind
OneList == <<IndexRecord(<<"N", " ", "B">>, PyStr(<<"1", ".", "5">>)),
             IndexRecord(<<"b">>, PyInt(7))>>
SessionNext ==
    \/ Construct
    \/ Clock
    \/ FetchCalls({<<"a">>}, QuoteBodies \ {BadBody}, {None}, MoverBodies \ {BadBody},
                  {<<"n", " ", "b">>, <<"b">>}, AdvanceBodies \ {BadBody},
                  {BadBody, [ok |-> TRUE, data |-> OneList]})
SessionSpec == Init /\ [][SessionNext]_vars

\* the operations that use the session, with every argument and answer, on the clock
\* of the construction
QueryNext == Construct \/ FetchNext
QuerySpec == Init /\ [][QueryNext]_vars

\* the cache and the operations that use it, on a client built with the defaults and
\* asked for native values (as_json=False)
CacheNext == NseInit(DefaultRefreshInterval, "ok") \/ OpenerCalls({FALSE})
CacheSpec == Init /\ [][CacheNext]_vars

\* every public operation on one client with a short refresh interval, the clock
\* advancing by that interval; one call and one answer of each kind for the
\* operations that use the session
AllOpsNext ==
    \/ \E warm \in WarmOutcomes : NseInit(ShortRefreshInterval, warm)
    \/ Tick(TickSeconds)
    \/ FetchCalls({<<"a">>}, QuoteBodies \ {BadBody}, {None}, MoverBodies \ {BadBody}, {<<"n", " ", "b">>, <<"b">>}, AdvanceBodies \ {BadBody}, {BadBody, [ok |-> TRUE, data |-> OneList]})
    \/ OpenerCallsOn({FALSE}, {Raises, NoResponse, Body(<<>>)}, {Raises, NoResponse, Body(<<>>)}, {<<"a">>}, {[kind |-> "raise", items |-> 0], [kind |-> "body", items |-> 1]})
AllOpsSpec == Init /\ [][AllOpsNext]_vars

(***************************************************************************)
(* get_stock_codes and get_fno_lot_sizes statement by statement, called by *)
(* the threads of Callers on the one Nse object.  running[c] holds the     *)
(* locals of the call of thread c:                                         *)
(*   pc        "open": before self.opener.open(req); "loop": in the loop   *)
(*             over the lines, or past it and before the assignment of     *)
(*             self.__CODECACHE__; "return": before the return statement   *)
(*   body      the lines of the response; lines: those not yet looked at   *)
(*   res_dict  the local dict                                              *)
(* stockRuns is kept by the whole-call actions only.                       *)
(***************************************************************************)
\* the bodies the opener answers with: a symbol directory of two lines, lot sizes of
\* two lines, and lot sizes whose second line does not convert
StepResponses(op) ==
    IF op = "get_stock_codes"
    THEN {Raises, NoResponse,
          Body(<< << <<"A">>, <<"x">> >>, << <<"A", "B">>, <<"y">>, <<"z">> >> >>)}
    ELSE {Raises,
          Body(<< << <<"x">>, <<"A", " ">>, <<" ", "2", "5">> >>,
                  << <<"x">>, <<"B">>, <<"5", "0">>, <<"7">> >> >>),
          Body(<< << <<"x">>, <<"B">>, <<"5", "0">>, <<"7">> >>,
                  << <<"x">>, <<"A">>, <<"l", "o", "t">> >> >>)}

\* the loop of `op` over these lines, from this res_dict
LoopOver(op, lines, res_dict) ==
    IF op = "get_stock_codes"
    THEN [raised |-> FALSE, dict |-> ParseStockCodes(lines, res_dict)]
    ELSE ParseLotSizes(lines, res_dict)

\* one pass of the loop storing res_dict in self.__CODECACHE__ line by line
LoopStepStoring(frame) ==
    LET r == LoopOver(frame.op, <<Head(frame.lines)>>, frame.res_dict) IN
    [raised |-> r.raised,
     frame |-> [frame EXCEPT !.lines = Tail(frame.lines), !.res_dict = r.dict],
     cache |-> Some(r.dict)]

\* one pass of the loop: the line is skipped, or put into the local res_dict, or
\* raises; self.__CODECACHE__ is not assigned
LoopStep(frame) ==
    LET r == LoopOver(frame.op, <<Head(frame.lines)>>, frame.res_dict) IN
    [raised |-> r.raised,
     frame |-> [frame EXCEPT !.lines = Tail(frame.lines), !.res_dict = r.dict],
     cache |-> __CODECACHE__]

\* how a call of thread c ends: what it returned or raised, and the thread is idle
CacheEnd(c, outcome, value) ==
    /\ call' = Call(running[c].op, outcome,
                    [cached |-> running[c].cached, answer |-> running[c].answer,
                     value |-> value],
                    [NoFetch EXCEPT !.prevGetOn = LastGetOn],
                    IF running[c].answer = "unasked" THEN 0 ELSE 1)
    /\ running' = [running EXCEPT ![c] = Idle]

\* the call is entered: res_dict = {} and the test of cached and self.__CODECACHE__
CacheBegin(c, op, cached) ==
    /\ constructed
    /\ running[c] = Idle
    /\ running' = [running EXCEPT ![c] =
                      [op |-> op, pc |-> IF MustFetch(cached) THEN "open" ELSE "return",
                       cached |-> cached, answer |-> "unasked", body |-> <<>>,
                       lines |-> <<>>, res_dict |-> <<>>]]
    /\ UNCHANGED <<sessionVars, clockVars, cacheVars, stockRuns, call, peer>>

\* res = self.opener.open(req), and the test of res
CacheOpen(c, resp) ==
    /\ running[c].pc = "open"
    /\ IF resp.kind = "body"
       THEN /\ running' = [running EXCEPT ![c].pc = "loop", ![c].answer = resp.kind,
                                          ![c].body = resp.lines, ![c].lines = resp.lines]
            /\ UNCHANGED call
       ELSE /\ call' = Call(running[c].op,
                            IF resp.kind = "raise" THEN "TransportError" ELSE "NoResponse",
                            [cached |-> running[c].cached, answer |-> resp.kind,
                             value |-> None],
                            [NoFetch EXCEPT !.prevGetOn = LastGetOn], 1)
            /\ running' = [running EXCEPT ![c] = Idle]
    /\ UNCHANGED <<sessionVars, clockVars, cacheVars, stockRuns, peer>>

\* one line of the body
CacheLoop(c) ==
    /\ running[c].pc = "loop"
    /\ running[c].lines # <<>>
    /\ LET step == LoopStep(running[c]) IN
       /\ __CODECACHE__' = step.cache
       /\ IF step.raised
          THEN CacheEnd(c, "ValueError", None)
          ELSE /\ running' = [running EXCEPT ![c] = step.frame]
               /\ UNCHANGED call
    /\ UNCHANGED <<sessionVars, clockVars, cacheSource, stockRuns, peer>>

\* self.__CODECACHE__ = res_dict
CacheStore(c) ==
    /\ running[c].pc = "loop"
    /\ running[c].lines = <<>>
    /\ __CODECACHE__' = Some(running[c].res_dict)
    /\ cacheSource' = running[c].op
    /\ running' = [running EXCEPT ![c].pc = "return"]
    /\ UNCHANGED <<sessionVars, clockVars, stockRuns, call, peer>>

\* return self.render_response(self.__CODECACHE__, as_json)
CacheReturn(c) ==
    /\ running[c].pc = "return"
    /\ CacheEnd(c, "ok", Some(render_response(TheValue(__CODECACHE__), FALSE)))
    /\ UNCHANGED <<sessionVars, clockVars, cacheVars, stockRuns, peer>>

StepCacheNext ==
    \/ NseInit(DefaultRefreshInterval, "ok")
    \/ \E c \in Callers, op \in {"get_stock_codes", "get_fno_lot_sizes"}, cached \in BOOLEAN :
          CacheBegin(c, op, cached)
    \/ \E c \in Callers : \E resp \in StepResponses(running[c].op) : CacheOpen(c, resp)
    \/ \E c \in Callers : CacheLoop(c)
    \/ \E c \in Callers : CacheStore(c)
    \/ \E c \in Callers : CacheReturn(c)
StepCacheSpec == Init /\ [][StepCacheNext]_vars

(***************************************************************************)
(* A second Nse object in the same process.  Of this object the model      *)
(* keeps what the cached operations read and write:                        *)
(*   peer.built    Nse() has returned it                                   *)
(*   peer.own      its instance attribute __CODECACHE__, None while the    *)
(*                 object has no such attribute                            *)
(*   peer.fetched  one of its calls has stored a mapping                   *)
(*   peer.last     its last call: the operation, cached, the calls of the  *)
(*                 opener and how it ended                                 *)
(* Its session is an object of its own and plays no part in these calls.   *)
(* __CODECACHE__ of the model is what self.__CODECACHE__ reads on the      *)
(* first object.                                                           *)
(***************************************************************************)
\* the class attribute as one attribute that the objects would share
ClassCodeCacheShared == __CODECACHE__

\* Nse.__CODECACHE__, the class attribute: no statement assigns it
ClassCodeCache == None

\* self.__CODECACHE__ read on the second object: the instance attribute, and the
\* class attribute while there is none
PeerCodeCache == IF IsNone(peer.own) THEN ClassCodeCache ELSE peer.own

\* Nse() for the second object
PeerInit ==
    /\ ~peer.built
    /\ peer' = [NoPeer EXCEPT !.built = TRUE]
    /\ UNCHANGED <<sessionVars, clockVars, cacheVars, stockRuns, call, running>>

\* the answers of the opener that a call on the second object can meet
PeerAnswers(op, cached) ==
    IF ~cached \/ IsNone(PeerCodeCache) THEN StepResponses(op) ELSE {Unasked}

\* get_stock_codes(cached) or get_fno_lot_sizes(cached) on the second object
PeerCached(op, cached, resp) ==
    LET whole == LoopOver(op, resp.lines, <<>>)
        last(opened, outcome) == [op |-> op, cached |-> cached, opened |-> opened, outcome |-> outcome]
    IN
    /\ peer.built
    /\ peer' = IF resp.kind = "unasked" THEN [peer EXCEPT !.last = last(0, "ok")]
               ELSE IF resp.kind = "raise" THEN [peer EXCEPT !.last = last(1, "TransportError")]
               ELSE IF resp.kind = "none" THEN [peer EXCEPT !.last = last(1, "NoResponse")]
               ELSE IF whole.raised THEN [peer EXCEPT !.last = last(1, "ValueError")]
               ELSE [peer EXCEPT !.own = Some(whole.dict), !.fetched = TRUE,
                                 !.last = last(1, "ok")]
    /\ UNCHANGED <<sessionVars, clockVars, cacheVars, stockRuns, call, running>>

\* two objects and their cached operations
PeerNext ==
    \/ NseInit(DefaultRefreshInterval, "ok")
    \/ \E cached \in BOOLEAN :
          \E resp \in Answers(cached, StepResponses("get_stock_codes")) :
             get_stock_codes(cached, FALSE, resp)
    \/ \E cached \in BOOLEAN :
          \E resp \in Answers(cached, StepResponses("get_fno_lot_sizes")) :
             get_fno_lot_sizes(cached, FALSE, resp)
    \/ PeerInit
    \/ \E op \in {"get_stock_codes", "get_fno_lot_sizes"}, cached \in BOOLEAN :
          \E resp \in PeerAnswers(op, cached) : PeerCached(op, cached, resp)
PeerSpec == Init /\ [][PeerNext]_vars

(***************************************************************************)
(* Nse.fetch statement by statement, called by the threads of Callers on   *)
(* the one Nse object; the code takes no lock.  running[c] holds the call  *)
(* of thread c:                                                            *)
(*   pc       "session": the test of time_diff failed, before the          *)
(*            assignment of self._session in create_session; "warm":       *)
(*            before the warm-up GET; "init": before the assignment of     *)
(*            _session_init_time; "get": before the data GET; "got": the   *)
(*            data GET has been issued                                     *)
(*   expiry   the _session_init_time that the test read                    *)
(*   late     now - _session_init_time was at least the interval           *)
(*   created  create_session calls made by this call                       *)
(*   warm     how its warm-up GET ended ("none": no warm-up GET)           *)
(*   getOn    the session its data GET was issued on (0: no GET yet)       *)
(*   getWarm  how the warm-up GET of that session had ended when the data  *)
(*            GET was issued ("none": it had not ended, or not begun)      *)
(*   got      how the data GET ended                                       *)
(* Each attribute read or write and each GET is one step.                  *)
(***************************************************************************)
\* time_diff = dt.now() - self._session_init_time, and the test of time_diff.seconds
FetchBegin(c) ==
    /\ constructed
    /\ running[c] = Idle
    /\ LET time_diff == now - _session_init_time IN
       running' = [running EXCEPT ![c] =
                      [op |-> "fetch",
                       pc |-> IF Fresh(time_diff, session_refresh_interval)
                              THEN "get" ELSE "session",
                       expiry |-> _session_init_time,
                       late |-> time_diff >= session_refresh_interval,
                       created |-> 0, warm |-> "none", getOn |-> 0,
                       getWarm |-> "none", got |-> "none"]]
    /\ UNCHANGED <<sessionVars, clockVars, cacheVars, stockRuns, call, peer>>

\* create_session is entered: self._session = requests.Session().  The threads
\* create at most MaxSessions sessions after the constructor's.
FetchNewSession(c) ==
    /\ running[c].pc = "session"
    /\ nSessions <= MaxSessions
    /\ _session' = nSessions + 1
    /\ nSessions' = nSessions + 1
    /\ warmup' = "none"
    /\ running' = [running EXCEPT ![c].pc = "warm", ![c].created = 1]
    /\ UNCHANGED <<constructed, session_refresh_interval, _session_init_time,
                   clockVars, cacheVars, stockRuns, call, peer>>

\* how a call of fetch of thread c ends
FetchEnd(c, frame) ==
    /\ call' = Call("fetch", IF "raise" \in {frame.warm, frame.got} THEN "TransportError" ELSE "ok",
                    <<>>,
                    [entered |-> TRUE, late |-> frame.late, created |-> frame.created,
                     warm |-> frame.warm, getOn |-> frame.getOn,
                     gets |-> IF frame.getOn = 0 THEN 0 ELSE 1, got |-> frame.got,
                     prevGetOn |-> LastGetOn], 0)
    /\ running' = [running EXCEPT ![c] = Idle]

\* self._session.get(urls.NSE_HOME), on the session that self._session holds now
FetchWarmUp(c, warm) ==
    /\ running[c].pc = "warm"
    /\ warmup' = warm
    /\ IF warm = "raise"
       THEN FetchEnd(c, [running[c] EXCEPT !.warm = warm])
       ELSE /\ running' = [running EXCEPT ![c].pc = "init", ![c].warm = warm]
            /\ UNCHANGED call
    /\ UNCHANGED <<constructed, session_refresh_interval, _session, _session_init_time,
                   nSessions, clockVars, cacheVars, stockRuns, peer>>

\* self._session_init_time = dt.now(), and create_session returns
FetchSetInit(c) ==
    /\ running[c].pc = "init"
    /\ _session_init_time' = now
    /\ running' = [running EXCEPT ![c].pc = "get"]
    /\ UNCHANGED <<constructed, session_refresh_interval, _session, nSessions, warmup,
                   clockVars, cacheVars, stockRuns, call, peer>>

\* self._session.get(url) is issued, on the session that self._session holds now
FetchGet(c, get) ==
    /\ running[c].pc = "get"
    /\ running' = [running EXCEPT ![c].pc = "got", ![c].getOn = _session,
                                  ![c].getWarm = warmup, ![c].got = get]
    /\ UNCHANGED <<sessionVars, clockVars, cacheVars, stockRuns, call, peer>>

\* return of the response, or the exception of the GET
FetchReturn(c) ==
    /\ running[c].pc = "got"
    /\ FetchEnd(c, running[c])
    /\ UNCHANGED <<sessionVars, clockVars, cacheVars, stockRuns, peer>>

StepFetchNext ==
    \/ \E warm \in WarmOutcomes : NseInit(ShortRefreshInterval, warm)
    \/ Tick(TickSeconds)
    \/ \E c \in Callers : FetchBegin(c)
    \/ \E c \in Callers : FetchNewSession(c)
    \/ \E c \in Callers, warm \in WarmOutcomes : FetchWarmUp(c, warm)
    \/ \E c \in Callers : FetchSetInit(c)
    \/ \E c \in Callers, get \in GetOutcomes : FetchGet(c, get)
    \/ \E c \in Callers : FetchReturn(c)
StepFetchSpec == Init /\ [][StepFetchNext]_vars

(***************************************************************************)
(* cast_intfloat_string_values_to_intfloat on its own: a record is given,  *)
(* cast, and the result cast again.                                        *)
(***************************************************************************)
\* the values of the records: strings that int() accepts, that only float() accepts,
\* that neither accepts, and values that are no strings
CastValues ==
    { PyStr(<<"1", "2">>), PyStr(<<" ", "7">>), PyStr(<<"-", "3">>),
      PyStr(<<"1", ".", "5">>), PyStr(<<"7", ".">>), PyStr(<<"+", ".", "5">>),
      PyStr(<<"-">>), PyStr(<<"1", ",", "0">>), PyStr(<<>>),
      PyInt(7), <<"float", 15, 1>>, PyDict([x |-> PyStr(<<"1">>)]) }
CastKeys == {"ltp", "change"}
CastRecords == UNION {[K -> CastValues] : K \in SUBSET CastKeys}

\* reply of a cast call: the record first given, the dict passed to this call and
\* what the call left of it, the dict returned, and which call it is
CastReply(origin, given, c, nth) ==
    [origin |-> origin, given |-> given, d |-> c.d, value |-> c.returned, nth |-> nth]

CastInit ==
    \E d \in CastRecords :
       /\ constructed = FALSE
       /\ session_refresh_interval = DefaultRefreshInterval
       /\ now = 0
       /\ ticks = 0
       /\ _session = 0
       /\ _session_init_time = 0
       /\ nSessions = 0
       /\ warmup = "none"
       /\ __CODECACHE__ = None
       /\ cacheSource = "none"
       /\ stockRuns = NoRuns
       /\ call = Call("none", "ok", [origin |-> d], NoFetch, 0)
       /\ running = NoneRunning
       /\ peer = NoPeer

\* cast_intfloat_string_values_to_intfloat(d) on the record given
CastGiven ==
    /\ call.op = "none"
    /\ call' = Call("cast_intfloat_string_values_to_intfloat", "ok",
                    CastReply(call.reply.origin, call.reply.origin,
                              CastCall(call.reply.origin), 1), NoFetch, 0)
    /\ UNCHANGED <<sessionVars, clockVars, cacheVars, stockRuns, running, peer>>

\* cast_intfloat_string_values_to_intfloat(r) on the record r that the first call
\* returned
CastReturned ==
    /\ call.op = "cast_intfloat_string_values_to_intfloat"
    /\ call.reply.nth = 1
    /\ call' = Call("cast_intfloat_string_values_to_intfloat", "ok",
                    CastReply(call.reply.origin, call.reply.value,
                              CastCall(call.reply.value), 2), NoFetch, 0)
    /\ UNCHANGED <<sessionVars, clockVars, cacheVars, stockRuns, running, peer>>

CastNext == CastGiven \/ CastReturned
CastSpec == CastInit /\ [][CastNext]_vars

(***************************************************************************)
(* What the checked properties speak of.                                   *)
(***************************************************************************)
\* a step in which an operation ran Nse.fetch (the clock stands still in it)
FetchStep == call'.fetch.entered /\ UNCHANGED clockVars

\* a step in which one of the cached operations ran
CacheOps == {"get_stock_codes", "get_fno_lot_sizes"}
CacheStep == call'.op \in CacheOps /\ UNCHANGED clockVars

\* upper-casing, then collapsing and trimming whitespace, stated without split/join:
\* every whitespace character becomes a space unless a space (or nothing) precedes it,
\* and a trailing space is dropped
RECURSIVE Squeeze(_, _)
Squeeze(s, afterSpace) ==
    IF s = <<>> THEN <<>>
    ELSE IF Head(s) \in Whitespace
    THEN IF afterSpace THEN Squeeze(Tail(s), TRUE) ELSE <<" ">> \o Squeeze(Tail(s), TRUE)
    ELSE <<Head(s)>> \o Squeeze(Tail(s), FALSE)
Collapsed(code) ==
    LET q == Squeeze(Upper(code), TRUE)
    IN  IF q # <<>> /\ q[Len(q)] = " " THEN SubSeq(q, 1, Len(q) - 1) ELSE q

\* the indexSymbol values of a fetched list
SymbolsOf(list) == {list[i].indexSymbol : i \in 1..Len(list)}

\* what int() and float() of Python make of the values of CastValues, value by value
Coerced(v) ==
    CASE v = PyStr(<<"1", "2">>)      -> PyInt(12)
      [] v = PyStr(<<" ", "7">>)      -> PyInt(7)
      [] v = PyStr(<<"-", "3">>)      -> PyInt(-3)
      [] v = PyStr(<<"1", ".", "5">>) -> <<"float", 15, 1>>
      [] v = PyStr(<<"7", ".">>)      -> <<"float", 7, 0>>
      [] v = PyStr(<<"+", ".", "5">>) -> <<"float", 5, 1>>
      [] OTHER                        -> v

\* the records in what the last operation returned: the dict returned, or the dicts
\* of the list returned
ReturnedRecords ==
    IF call.op \in {"get_quote", "get_advances_declines"} THEN {call.reply.value}
    ELSE IF call.op \in {"get_top_gainers", "get_top_losers"}
    THEN IF IsNone(call.reply.index) THEN {call.reply.value}
         ELSE {call.reply.value[2][i] : i \in 1..Len(call.reply.value[2])}
    ELSE IF call.op = "get_index_quote" THEN {TheValue(call.reply.record)}
    ELSE {}

\* no value of the record is a string that int() or float() accepts
Normalized(record) ==
    \A k \in DOMAIN record :
       IsStr(record[k]) => ~(IntParses(record[k][2]) \/ FloatParses(record[k][2]))

(***************************************************************************)
(* C1. Session reuse: a fetch made less than session_refresh_interval      *)
(* seconds after the last completed create_session performs no             *)
(* create_session and no warm-up GET, leaves _session and                  *)
(* _session_init_time unchanged, and issues its GET on the stored session, *)
(* the one the previous fetch issued its GET on.                           *)
(***************************************************************************)
C1_SessionReuse ==
    [][ (FetchStep /\ now - _session_init_time < session_refresh_interval)
        => /\ call'.fetch.created = 0
           /\ call'.fetch.warm = "none"
           /\ nSessions' = nSessions
           /\ _session' = _session
           /\ _session_init_time' = _session_init_time
           /\ call'.fetch.gets = 1
           /\ call'.fetch.getOn = _session
           /\ LastGetOn # 0 => call'.fetch.getOn = LastGetOn ]_vars

\* a second fetch, made after time has passed and within the interval, has issued its
\* GET on the session of the first
C1_Witness ==
    /\ call.fetch.entered
    /\ call.fetch.created = 0
    /\ call.fetch.getOn = _session
    /\ call.fetch.prevGetOn = _session
    /\ _session # 0
    /\ now > _session_init_time
    /\ now - _session_init_time < session_refresh_interval

(***************************************************************************)
(* C2. Session renewal: every fetch made when at least                     *)
(* session_refresh_interval seconds have passed since _session_init_time   *)
(* performs exactly one create_session with one warm-up GET, and issues    *)
(* its GET on the new session, never on the old one.                       *)
(***************************************************************************)
C2_SessionRenewal ==
    (call.fetch.entered /\ call.fetch.late)
        => /\ call.fetch.created = 1
           /\ call.fetch.warm # "none"
           /\ call.fetch.getOn \in {0, nSessions}
           /\ call.fetch.warm # "raise" => call.fetch.getOn = _session

(***************************************************************************)
(* C3. Cache hit policy, as claimed: two get_stock_codes calls with        *)
(* cached=True and no cached=False call between them issue at most one     *)
(* network fetch, and every cached=False call issues a fetch.              *)
(***************************************************************************)
C3_CacheHitPolicy ==
    /\ stockRuns.issued <= 1
    /\ (call.op = "get_stock_codes" /\ ~call.reply.cached) => call.opened = 1

(***************************************************************************)
(* C3, amended: once a get_stock_codes(cached=True) call has returned a    *)
(* mapping, no later cached=True call issues a network fetch until the     *)
(* next cached=False call (a call whose fetch failed stores nothing, and   *)
(* the next cached=True call fetches again); every cached=False call       *)
(* issues a fetch.                                                         *)
(***************************************************************************)
C3_CacheHitAfterSuccess ==
    /\ stockRuns.again = 0
    /\ (call.op = "get_stock_codes" /\ ~call.reply.cached) => call.opened = 1
    /\ (call.op = "get_stock_codes" /\ call.reply.cached /\ call.opened = 1)
          => stockRuns.issued >= 1

\* a cached=True call has been served from the cache after an earlier one fetched it
C3_Witness ==
    /\ call.op = "get_stock_codes"
    /\ call.reply.cached
    /\ call.opened = 0
    /\ stockRuns.issued = 1
    /\ stockRuns.returned
    /\ cacheSource = "get_stock_codes"

(***************************************************************************)
(* C4. Stale cache preserved on failure: when the fetch or the parse of    *)
(* get_stock_codes or get_fno_lot_sizes fails (the opener raises or        *)
(* returns None, or a line does not unpack or convert), the stored cache   *)
(* is what it was, the call ends with the failure, and a later cached=True *)
(* call returns the stored mapping without a fetch.                        *)
(***************************************************************************)
C4_StaleCachePreserved ==
    [][ /\ (CacheStep /\ call'.reply.answer \in {"raise", "none"})
           => call'.outcome \in {"TransportError", "NoResponse"}
        /\ (CacheStep /\ call'.outcome # "ok")
           => /\ __CODECACHE__' = __CODECACHE__
              /\ cacheSource' = cacheSource
              /\ IsNone(call'.reply.value)
        /\ (CacheStep /\ call'.reply.cached /\ ~IsNone(__CODECACHE__))
           => /\ call'.outcome = "ok"
              /\ call'.opened = 0
              /\ __CODECACHE__' = __CODECACHE__
              /\ TheValue(call'.reply.value).data = TheValue(__CODECACHE__) ]_vars

\* a parse of get_fno_lot_sizes has failed over a populated cache, which is still there
C4_Witness ==
    /\ call.op = "get_fno_lot_sizes"
    /\ call.outcome = "ValueError"
    /\ call.opened = 1
    /\ ~IsNone(__CODECACHE__)
    /\ DOMAIN TheValue(__CODECACHE__) # {}

(***************************************************************************)
(* C5. One cache entry per data product: what get_stock_codes returns was  *)
(* built by a symbol-directory fetch and what get_fno_lot_sizes returns    *)
(* was built by a lot-size fetch.                                          *)
(***************************************************************************)
C5_OneEntryPerProduct ==
    (call.op \in CacheOps /\ call.outcome = "ok") => cacheSource = call.op

(***************************************************************************)
(* C6. For every code, the empty string included, is_valid_code(code)      *)
(* returns True if and only if code.upper() is a key of the directory that *)
(* get_stock_codes(cached=True) returns.                                   *)
(***************************************************************************)
C6_ValidIffKey ==
    (call.op = "is_valid_code" /\ call.outcome = "ok" /\ ~IsNone(__CODECACHE__))
        => (call.reply.value = "True"
               <=> Upper(call.reply.code) \in DOMAIN TheValue(__CODECACHE__))

(***************************************************************************)
(* C7. Single choke-point: every data request of a public operation is     *)
(* issued by Nse.fetch; no operation issues a request through anything     *)
(* else (the warm-up GET of create_session aside).                         *)
(***************************************************************************)
C7_SingleChokePoint == call.opened = 0

(***************************************************************************)
(* C8. Bootstrap failure is an error: whenever the warm-up GET fails, by a *)
(* network error or a non-2xx response, the constructor or fetch ends with *)
(* an error, makes no second create_session and issues no data GET.        *)
(***************************************************************************)
C8_BootstrapFailureIsError ==
    call.fetch.warm \in {"raise", "non2xx"}
        => /\ call.outcome = "TransportError"
           /\ call.fetch.created = 1
           /\ call.fetch.gets = 0

(***************************************************************************)
(* C9. Unknown index code: when the index list was fetched and decoded and *)
(* the code, upper-cased and whitespace-collapsed, is no indexSymbol of    *)
(* it, get_index_quote ends with 'Wrong index code', not with a transport  *)
(* error, after the one data GET of its fetch and with no create_session   *)
(* beyond the one an expired session called for.                           *)
(***************************************************************************)
C9_UnknownIndexCode ==
    [][ (/\ FetchStep
         /\ call'.op = "get_index_quote"
         /\ call'.reply.fetched
         /\ PyStr(Collapsed(call'.reply.code)) \notin SymbolsOf(call'.reply.list))
        => /\ call'.outcome = "WrongIndexCode"
           /\ IsNone(call'.reply.record)
           /\ call'.fetch.gets = 1
           /\ call'.fetch.created = (IF NeedsSession THEN 1 ELSE 0)
           /\ nSessions' = nSessions + call'.fetch.created
           /\ call'.fetch.getOn = _session' ]_vars

\* get_index_quote has ended with 'Wrong index code' for a code that is in no
\* fetched record, on a session that was not recreated
C9_Witness ==
    /\ call.op = "get_index_quote"
    /\ call.outcome = "WrongIndexCode"
    /\ call.reply.fetched
    /\ call.reply.list # <<>>
    /\ call.fetch.created = 0
    /\ call.fetch.gets = 1

(***************************************************************************)
(* C10. Index code normalization: two codes that are equal after           *)
(* upper-casing and collapsing/trimming whitespace make get_index_quote    *)
(* look up the same key and, against the same fetched list, return the     *)
(* same record or fail the same way.                                       *)
(***************************************************************************)
C10_IndexCodeNormalization ==
    (call.op = "get_index_quote" /\ call.reply.fetched)
        => \A other \in IndexCodes :
              Collapsed(other) = Collapsed(call.reply.code)
                 => LET found == IndexLookup(other, call.reply.list)
                    IN  /\ found.key = call.reply.key
                        /\ found.outcome = call.outcome
                        /\ found.record = call.reply.record

\* a record has been returned for a code that differs from another code only in case
\* and whitespace
C10_Witness ==
    /\ call.op = "get_index_quote"
    /\ call.outcome = "ok"
    /\ ~IsNone(call.reply.record)
    /\ call.reply.code # call.reply.key
    /\ \E other \in IndexCodes :
          /\ other # call.reply.code
          /\ Upper(other) # Upper(call.reply.code)
          /\ Collapsed(other) = Collapsed(call.reply.code)

(***************************************************************************)
(* C11. Normalization is idempotent: cast_intfloat_string_values_to_intfloat *)
(* applied to a record it returned returns a record equal to it.           *)
(***************************************************************************)
C11_CastIdempotent ==
    (call.op = "cast_intfloat_string_values_to_intfloat" /\ call.reply.nth = 2)
        => call.reply.value = call.reply.given

\* the result of a cast that turned one value into a number and kept another as a
\* string has been cast again
C11_Witness ==
    /\ call.op = "cast_intfloat_string_values_to_intfloat"
    /\ call.reply.nth = 2
    /\ \E k \in DOMAIN call.reply.origin :
          /\ IsStr(call.reply.origin[k])
          /\ ~IsStr(call.reply.given[k])
    /\ \E k \in DOMAIN call.reply.given :
          /\ IsStr(call.reply.given[k])
          /\ Contains(call.reply.given[k][2], <<",">>)

(***************************************************************************)
(* C12. Ordered coercion: cast_intfloat_string_values_to_intfloat returns  *)
(* a record with the keys of the one given, in which a string that int()   *)
(* accepts is that integer, another string that float() accepts is that    *)
(* float, every other string ("-", "1,0", "") is the same string and every *)
(* value that is no string is the same value; the record given is left as  *)
(* it was.                                                                 *)
(***************************************************************************)
C12_OrderedCoercion ==
    (call.op = "cast_intfloat_string_values_to_intfloat" /\ call.reply.nth = 1)
        => /\ DOMAIN call.reply.value = DOMAIN call.reply.given
           /\ \A k \in DOMAIN call.reply.given :
                 call.reply.value[k] = Coerced(call.reply.given[k])
           /\ call.reply.d = call.reply.given

\* a record with a string that became an integer and one that became a float has
\* been cast
C12_Witness ==
    /\ call.op = "cast_intfloat_string_values_to_intfloat"
    /\ call.reply.nth = 1
    /\ \E j, k \in DOMAIN call.reply.given :
          /\ IsStr(call.reply.given[j])
          /\ call.reply.value[j][1] = "int"
          /\ IsStr(call.reply.given[k])
          /\ call.reply.value[k][1] = "float"

(***************************************************************************)
(* C13. Every returned record is normalized: in what get_quote,            *)
(* get_top_gainers, get_top_losers (with or without an index),             *)
(* get_advances_declines and get_index_quote return, no record has a       *)
(* string value that int() or float() accepts.                             *)
(***************************************************************************)
C13_ReturnedRecordsNormalized ==
    call.outcome = "ok" => \A record \in ReturnedRecords : Normalized(record)


(***************************************************************************)
(* C14. No request on an un-warmed session: the data GET of Nse.fetch is   *)
(* only issued on a session whose warm-up GET completed, never on one that *)
(* a create_session stored in _session before its warm-up GET raised.      *)
(***************************************************************************)
C14_NoRequestOnUnwarmedSession ==
    (call.fetch.entered /\ call.fetch.gets = 1)
        => /\ call.fetch.getOn = _session
           /\ warmup \in {"ok", "non2xx"}


(***************************************************************************)
(* C15. Refetch when not populated: get_stock_codes(cached=True) and       *)
(* get_fno_lot_sizes(cached=True) return the stored entry without a        *)
(* network call only when a populated entry exists; when the stored entry  *)
(* is absent or an empty mapping the call fetches.                         *)
(***************************************************************************)
C15_RefetchWhenNotPopulated ==
    (call.op \in CacheOps /\ call.reply.cached /\ call.outcome = "ok" /\ call.opened = 0)
        => /\ ~IsNone(__CODECACHE__)
           /\ DOMAIN TheValue(__CODECACHE__) # {}


C16_AtomicCacheReplacement ==
    [][ __CODECACHE__' # __CODECACHE__
        => \E c \in Callers :
              /\ running[c].pc = "loop"
              /\ running[c].lines = <<>>
              /\ LET whole == LoopOver(running[c].op, running[c].body, <<>>)
                 IN  /\ ~whole.raised
                     /\ __CODECACHE__' = Some(whole.dict) ]_vars

\* a call is in the middle of its body, with a res_dict partly built, over a stored
\* cache that an earlier fetch built and that is not that res_dict, after the parse
\* of another call has failed
C16_Witness ==
    /\ ~IsNone(__CODECACHE__)
    /\ call.outcome = "ValueError"
    /\ \E c \in Callers :
          /\ running[c].pc = "loop"
          /\ running[c].lines # <<>>
          /\ DOMAIN running[c].res_dict # {}
          /\ DOMAIN running[c].res_dict # DOMAIN TheValue(__CODECACHE__)


(***************************************************************************)
(* C18. No cross-instance cache sharing: a step that changes the cache of  *)
(* one of two Nse objects leaves the cache of the other as it was; an      *)
(* object none of whose calls has stored a mapping has no cache, whatever  *)
(* the other has fetched, and a cached=True call on it calls the opener.   *)
(***************************************************************************)
C18_NoCrossInstanceCacheSharing ==
    [][ /\ __CODECACHE__' # __CODECACHE__ => PeerCodeCache' = PeerCodeCache
        /\ PeerCodeCache' # PeerCodeCache => __CODECACHE__' = __CODECACHE__
        /\ peer.built /\ ~peer.fetched => IsNone(PeerCodeCache)
        /\ peer.built /\ ~peer.fetched /\ peer' # peer /\ peer'.last.cached
              => peer'.last.opened = 1 ]_vars

\* the first object holds a mapping, and the first call of the second object, with
\* cached=True, has called the opener and stored another mapping
C18_Witness ==
    /\ ~IsNone(__CODECACHE__)
    /\ cacheSource = "get_stock_codes"
    /\ peer.fetched
    /\ peer.last = [op |-> "get_fno_lot_sizes", cached |-> TRUE, opened |-> 1, outcome |-> "ok"]
    /\ PeerCodeCache # __CODECACHE__


(***************************************************************************)
(* C19. Concurrent renewal: when two callers interleave Nse.fetch on one   *)
(* client whose session is stale, the staleness check and the recreation   *)
(* act as one atomic step: the two calls do not both create a session for  *)
(* the same expiry, they are never both inside create_session, and no data *)
(* GET is issued on a session whose warm-up GET has not completed.         *)
(***************************************************************************)
C19_ConcurrentRenewalAtomic ==
    /\ \A c \in Callers : \A d \in Callers \ {c} :
          running[c].op = "fetch" /\ running[d].op = "fetch"
            => /\ ~(/\ running[c].created = 1
                    /\ running[d].created = 1
                    /\ running[c].expiry = running[d].expiry)
               /\ ~(running[c].pc \in {"warm", "init"} /\ running[d].pc \in {"warm", "init"})
    /\ \A c \in Callers :
          running[c].pc = "got" => running[c].getWarm \in {"ok", "non2xx"}

====
